---- MODULE Spec2Model ----
(***************************************************************************)
(* Byzantine operator SDK: the ByzOperatorClient facade, its four          *)
(* sub-clients (Symbiotic OperatorRegistry, OperatorNetworkOptInService,   *)
(* OperatorVaultOptInService and the Native OperatorRegistry) and the      *)
(* per-chain NETWORKS table.                                               *)
(*                                                                         *)
(* JavaScript values are tagged records [t |-> type, v |-> payload]; a     *)
(* string payload is a TLA+ string, read character by character with       *)
(* Len and SubSeq.  The environment (the chain behind the contracts) is    *)
(* txCount, the number of transactions submitted so far, plus the          *)
(* interactions issued by the latest facade call, kept in `last`.          *)
(***************************************************************************)
EXTENDS Integers, Sequences, FiniteSets, TLC

\* `networks` is the NETWORKS object of constants/networks.ts, which the
\* package exports and nothing freezes
VARIABLES client, last, txCount, inflight, networks

vars == <<client, last, txCount, inflight, networks>>

(***************************************************************************)
(* Bounds of the exploration.                                              *)
(***************************************************************************)
MaxTx == 1
\* calls in flight at once, and transactions submitted, when the calls of
\* one client interleave
MaxInflight == 2
MaxAsyncTx == 2

(***************************************************************************)
(* JavaScript values.                                                      *)
(***************************************************************************)
Undefined == [t |-> "undefined"]
NaN == [t |-> "NaN"]
Num(n) == [t |-> "number", v |-> n]
Str(s) == [t |-> "string", v |-> s]
Bool(b) == [t |-> "boolean", v |-> b]
Arr(a) == [t |-> "array", v |-> a]
Obj(o) == [t |-> "object", v |-> o]

\* ToBoolean: undefined, NaN, 0 and "" are falsy; objects and arrays truthy.
Truthy(x) ==
  CASE x.t = "undefined" -> FALSE
    [] x.t = "NaN" -> FALSE
    [] x.t = "number" -> x.v # 0
    [] x.t = "string" -> x.v # ""
    [] x.t = "boolean" -> x.v
    [] OTHER -> TRUE

\* a < b on JS values used as numbers: any comparison with NaN (and
\* undefined converts to NaN) is false.
JsLess(a, b) == a.t = "number" /\ b.t = "number" /\ a.v < b.v

\* a || b with b in place of the whole expression
JsOr_Second(a, b) == b

\* a || b
JsOr(a, b) == IF Truthy(a) THEN a ELSE b

\* obj[field]: undefined when the property is absent.
GetProp(obj, field) ==
  IF field \in DOMAIN obj.v THEN Str(obj.v[field]) ELSE Undefined

(***************************************************************************)
(* Strings: String.prototype.trim and ethers.isAddress.                    *)
(***************************************************************************)
WhiteSpace == {" "}

RECURSIVE TrimStart(_)
TrimStart(s) ==
  IF s # "" /\ SubSeq(s, 1, 1) \in WhiteSpace THEN TrimStart(Tail(s)) ELSE s

RECURSIVE TrimEnd(_)
TrimEnd(s) ==
  IF s # "" /\ SubSeq(s, Len(s), Len(s)) \in WhiteSpace
  THEN TrimEnd(SubSeq(s, 1, Len(s) - 1)) ELSE s

Trim(s) == TrimEnd(TrimStart(s))

LowerHex == {"a", "b", "c", "d", "e", "f"}
UpperHex == {"A", "B", "C", "D", "E", "F"}
Digits == {"0", "1", "2", "3", "4", "5", "6", "7", "8", "9"}

CharsOf(s) == {SubSeq(s, i, i) : i \in 1..Len(s)}

\* The mixed-case addresses whose EIP-55 checksum (a keccak256 of the
\* lower-case form) is right: the ones the repository itself uses.
ChecksummedAddresses ==
  {"0x4535bd6fF24860b5fd2889857651a85fb3d3C6b1",
   "0xd961f9691fEa2fE5936a92Abe0B0832663e77Bb7"}

\* isAddress refusing the zero address
isAddress_RejectsZero(x) ==
  /\ x.t = "string"
  /\ x.v # "0x0000000000000000000000000000000000000000"
  /\ LET s == x.v
         body == IF Len(s) >= 2 /\ SubSeq(s, 1, 2) = "0x"
                 THEN SubSeq(s, 3, Len(s)) ELSE s
         cs == CharsOf(body)
     IN /\ Len(body) = 40
        /\ cs \subseteq (Digits \cup LowerHex \cup UpperHex)
        /\ (cs \cap LowerHex # {} /\ cs \cap UpperHex # {})
             => s \in ChecksummedAddresses

\* ethers.isAddress(value): a string of 40 hex digits with an optional 0x
\* prefix; when it mixes upper and lower case letters the checksum must
\* match.  (The ICAP form XE.. is not among the inputs explored.)
isAddress(x) ==
  /\ x.t = "string"
  /\ LET s == x.v
         body == IF Len(s) >= 2 /\ SubSeq(s, 1, 2) = "0x"
                 THEN SubSeq(s, 3, Len(s)) ELSE s
         cs == CharsOf(body)
     IN /\ Len(body) = 40
        /\ cs \subseteq (Digits \cup LowerHex \cup UpperHex)
        /\ (cs \cap LowerHex # {} /\ cs \cap UpperHex # {})
             => s \in ChecksummedAddresses

ZeroAddress == "0x0000000000000000000000000000000000000000"

(***************************************************************************)
(* constants/networks.ts                                                   *)
(***************************************************************************)
NETWORKS ==
  (1 :> [name |-> "Ethereum",
         scanLink |-> "https://etherscan.io",
         stETHAddress |-> "0xae7ab96520de3a18e5e111b5eaab095312d7fe84",
         wstETHAddress |-> "0x7f39c581f595b53c5cb19bd0b3f8da6c935e2ca0",
         byzOperatorRegistry |-> "0xEf08Be0D16F92A6ee8244e125230f82AfE5D28D7",
         vaultFactory |-> "0xAEb6bdd95c502390db8f52c8909F703E9Af6a346",
         delegatorFactory |-> "0x985Ed57AF9D475f1d83c1c1c8826A0E5A34E8C7B",
         slasherFactory |-> "0x685c2eD7D59814d2a597409058Ee7a92F21e48Fd",
         networkRegistry |-> "0xC773b1011461e7314CF05f97d95aa8e92C1Fd8aA",
         networkMetadataService |-> "0x0000000000000000000000000000000000000000",
         networkMiddlewareService |-> "0xD7dC9B366c027743D90761F71858BCa83C6899Ad",
         operatorRegistry |-> "0xAd817a6Bc954F678451A71363f04150FDD81Af9F",
         operatorMetadataService |-> "0x0000000000000000000000000000000000000000",
         operatorVaultOptInService |-> "0xb361894bC06cbBA7Ea8098BF0e32EB1906A5F891",
         operatorNetworkOptInService |-> "0x7133415b33B438843D581013f98A08704316633c",
         vaultConfigurator |-> "0x29300b1d3150B4E2b12fE80BE72f365E200441EC"])
  @@
  (17000 :> [name |-> "Holesky",
         scanLink |-> "https://holesky.etherscan.io",
         stETHAddress |-> "0x3F1c547b21f65e10480dE3ad8E19fAAC46C95034",
         wstETHAddress |-> "0x8d09a4502Cc8Cf1547aD300E066060D043f6982D",
         byzOperatorRegistry |-> "0x28aCBD4582383c4AB996ee6eBc2340F9b9C57659",
         vaultFactory |-> "0x407A039D94948484D356eFB765b3c74382A050B4",
         delegatorFactory |-> "0x890CA3f95E0f40a79885B7400926544B2214B03f",
         slasherFactory |-> "0xbf34bf75bb779c383267736c53a4ae86ac7bB299",
         networkRegistry |-> "0x7d03b7343BF8d5cEC7C0C27ecE084a20113D15C9",
         networkMetadataService |-> "0x0F7E58Cc4eA615E8B8BEB080dF8B8FDB63C21496",
         networkMiddlewareService |-> "0x62a1ddfD86b4c1636759d9286D3A0EC722D086e3",
         operatorRegistry |-> "0x6F75a4ffF97326A00e52662d82EA4FdE86a2C548",
         operatorMetadataService |-> "0x0999048aB8eeAfa053bF8581D4Aa451ab45755c9",
         operatorVaultOptInService |-> "0x95CC0a052ae33941877c9619835A233D21D57351",
         operatorNetworkOptInService |-> "0x58973d16FFA900D11fC22e5e2B6840d9f7e13401",
         vaultConfigurator |-> "0xD2191FE92987171691d552C219b8caEf186eb9cA"])
  @@
  (11155111 :> [name |-> "Ethereum Sepolia",
         scanLink |-> "https://sepolia.etherscan.io",
         stETHAddress |-> "0x3e3FE7dBc6B4C189E7128855dD526361c49b40Af",
         wstETHAddress |-> "0xB82381A3fBD3FaFA77B3a7bE693342618240067b",
         byzOperatorRegistry |-> "0xD73b55dD8a5DF6f9a752f610b2279c82575D23ad",
         vaultFactory |-> "0x407A039D94948484D356eFB765b3c74382A050B4",
         delegatorFactory |-> "0x890CA3f95E0f40a79885B7400926544B2214B03f",
         slasherFactory |-> "0xbf34bf75bb779c383267736c53a4ae86ac7bB299",
         networkRegistry |-> "0x7d03b7343BF8d5cEC7C0C27ecE084a20113D15C9",
         networkMetadataService |-> "0x0F7E58Cc4eA615E8B8BEB080dF8B8FDB63C21496",
         networkMiddlewareService |-> "0x62a1ddfD86b4c1636759d9286D3A0EC722D086e3",
         operatorRegistry |-> "0x6F75a4ffF97326A00e52662d82EA4FdE86a2C548",
         operatorMetadataService |-> "0x0999048aB8eeAfa053bF8581D4Aa451ab45755c9",
         operatorVaultOptInService |-> "0x95CC0a052ae33941877c9619835A233D21D57351",
         operatorNetworkOptInService |-> "0x58973d16FFA900D11fC22e5e2B6840d9f7e13401",
         vaultConfigurator |-> "0xD2191FE92987171691d552C219b8caEf186eb9cA"])

\* the lookup falling back to Holesky for a key the table lacks
getNetworkConfig_DefaultHolesky(chainId) ==
  IF chainId.t = "number" /\ chainId.v \in DOMAIN networks
  THEN Obj(networks[chainId.v]) ELSE Obj(networks[17000])

\* NETWORKS[chainId]: the entry, or undefined for a key the table lacks.
getNetworkConfig(chainId) ==
  IF chainId.t = "number" /\ chainId.v \in DOMAIN networks
  THEN Obj(networks[chainId.v]) ELSE Undefined

getSupportedChainIds == DOMAIN networks

\* the chain check answering true for every chain
isChainSupported_Always(chainId) == TRUE

\* the chains the ChainsOptions type lists, instead of those of the table
isChainSupported_TypeListed(chainId) == chainId.t = "number" /\ chainId.v \in {1, 17000, 560048}

\* !!NETWORKS[chainId]
isChainSupported(chainId) == Truthy(getNetworkConfig(chainId))

(***************************************************************************)
(* Outcomes of a constructor or a method: a normal return or a throw.      *)
(***************************************************************************)
NoError == [msg |-> "", arg |-> Undefined]
Err(msg, arg) == [msg |-> msg, arg |-> arg]

ChainNotSupported(chainId) == Err("Chain ID ${chainId} is not supported", chainId)
SignerRequired == Err("Signer is required for operator client", Undefined)
\* reading a property of undefined
TypeError == Err("TypeError: Cannot read properties of undefined", Undefined)
NotConfigured(what, chainId) ==
  Err(what \o " not configured for chain ${chainId}", chainId)

\* new ethers.Contract(address, abi, runner)
Contract(address, abi, runner) ==
  [address |-> address, abi |-> abi, runner |-> runner]

\* the sub-client constructors testing only `!contractAddress`
SubClientConstructor_ZeroAccepted(provider, signer, chainId, field, abi, what) ==
  LET networkConfig == getNetworkConfig(chainId) IN
  IF networkConfig = Undefined
  THEN [ok |-> FALSE, error |-> TypeError, instance |-> Undefined]
  ELSE LET contractAddress == GetProp(networkConfig, field) IN
       IF ~Truthy(contractAddress)
       THEN [ok |-> FALSE, error |-> NotConfigured(what, chainId),
             instance |-> Undefined]
       ELSE [ok |-> TRUE, error |-> NoError,
             instance |->
               Obj([provider |-> provider, signer |-> signer,
                    chainId |-> chainId,
                    contract |-> Contract(contractAddress, abi,
                                   JsOr(signer, provider))])]

\* The body shared by the four sub-client constructors: look the address
\* up, refuse a missing, empty or zero one, bind the contract to
\* `signer || provider`.
SubClientConstructor(provider, signer, chainId, field, abi, what) ==
  LET networkConfig == getNetworkConfig(chainId) IN
  IF networkConfig = Undefined
  THEN [ok |-> FALSE, error |-> TypeError, instance |-> Undefined]
  ELSE LET contractAddress == GetProp(networkConfig, field) IN
       IF ~Truthy(contractAddress) \/ contractAddress = Str(ZeroAddress)
       THEN [ok |-> FALSE, error |-> NotConfigured(what, chainId),
             instance |-> Undefined]
       ELSE [ok |-> TRUE, error |-> NoError,
             instance |->
               Obj([provider |-> provider, signer |-> signer,
                    chainId |-> chainId,
                    contract |-> Contract(contractAddress, abi,
                                   JsOr(signer, provider))])]

\* the registry constructor reading the operatorMetadataService field
OperatorRegistry_constructor_WrongField(provider, signer, chainId) ==
  SubClientConstructor(provider, signer, chainId, "operatorMetadataService",
    "SymbioticOperatorRegistryABI", "Symbiotic Operator Registry")

OperatorRegistry_constructor(provider, signer, chainId) ==
  SubClientConstructor(provider, signer, chainId, "operatorRegistry",
    "SymbioticOperatorRegistryABI", "Symbiotic Operator Registry")

\* the network opt-in constructor reading the vault opt-in address
OperatorNetworkOptInService_constructor_VaultField(provider, signer, chainId) ==
  SubClientConstructor(provider, signer, chainId,
    "operatorVaultOptInService", "NetworkOptInServiceABI",
    "Network Opt-In Service")

OperatorNetworkOptInService_constructor(provider, signer, chainId) ==
  SubClientConstructor(provider, signer, chainId,
    "operatorNetworkOptInService", "NetworkOptInServiceABI",
    "Network Opt-In Service")

OperatorVaultOptInService_constructor(provider, signer, chainId) ==
  SubClientConstructor(provider, signer, chainId,
    "operatorVaultOptInService", "VaultOptInServiceABI",
    "Vault Opt-In Service")

NativeOperatorRegistry_constructor(provider, signer, chainId) ==
  SubClientConstructor(provider, signer, chainId, "byzOperatorRegistry",
    "NativeOperatorRegistryABI", "Native Operator Registry")

\* the constructor testing the signer before the chain
ByzOperatorClient_constructor_SignerFirst(options) ==
  LET chainId == options.chainId
      provider == options.provider
      signer == options.signer
      fail(e, made) ==
        [ok |-> FALSE, error |-> e, instance |-> Undefined, created |-> made]
  IN
  IF ~Truthy(signer) THEN fail(SignerRequired, <<>>)
  ELSE IF ~isChainSupported(chainId) THEN fail(ChainNotSupported(chainId), <<>>)
  ELSE
    LET r1 == OperatorRegistry_constructor(provider, signer, chainId) IN
    IF ~r1.ok THEN fail(r1.error, <<>>) ELSE
    LET r2 == OperatorNetworkOptInService_constructor(provider, signer, chainId)
        c1 == <<r1.instance.v.contract>> IN
    IF ~r2.ok THEN fail(r2.error, c1) ELSE
    LET r3 == OperatorVaultOptInService_constructor(provider, signer, chainId)
        c2 == Append(c1, r2.instance.v.contract) IN
    IF ~r3.ok THEN fail(r3.error, c2) ELSE
    LET r4 == NativeOperatorRegistry_constructor(provider, signer, chainId)
        c3 == Append(c2, r3.instance.v.contract) IN
    IF ~r4.ok THEN fail(r4.error, c3) ELSE
    [ok |-> TRUE, error |-> NoError,
     instance |-> Obj([chainId |-> chainId,
                       provider |-> provider,
                       signer |-> signer,
                       symOperatorRegistry |-> r1.instance,
                       symNetworkOptInService |-> r2.instance,
                       symVaultOptInService |-> r3.instance,
                       nativeOperatorRegistry |-> r4.instance]),
     created |-> Append(c3, r4.instance.v.contract)]

\* ByzOperatorClient constructor: chain check, signer check, then the four
\* sub-clients in order; `created` lists the contract objects built before
\* the constructor returned or threw.
ByzOperatorClient_constructor(options) ==
  LET chainId == options.chainId
      provider == options.provider
      signer == options.signer
      fail(e, made) ==
        [ok |-> FALSE, error |-> e, instance |-> Undefined, created |-> made]
  IN
  IF ~isChainSupported(chainId) THEN fail(ChainNotSupported(chainId), <<>>)
  ELSE IF ~Truthy(signer) THEN fail(SignerRequired, <<>>)
  ELSE
    LET r1 == OperatorRegistry_constructor(provider, signer, chainId) IN
    IF ~r1.ok THEN fail(r1.error, <<>>) ELSE
    LET r2 == OperatorNetworkOptInService_constructor(provider, signer, chainId)
        c1 == <<r1.instance.v.contract>> IN
    IF ~r2.ok THEN fail(r2.error, c1) ELSE
    LET r3 == OperatorVaultOptInService_constructor(provider, signer, chainId)
        c2 == Append(c1, r2.instance.v.contract) IN
    IF ~r3.ok THEN fail(r3.error, c2) ELSE
    LET r4 == NativeOperatorRegistry_constructor(provider, signer, chainId)
        c3 == Append(c2, r3.instance.v.contract) IN
    IF ~r4.ok THEN fail(r4.error, c3) ELSE
    [ok |-> TRUE, error |-> NoError,
     instance |-> Obj([chainId |-> chainId,
                       provider |-> provider,
                       signer |-> signer,
                       symOperatorRegistry |-> r1.instance,
                       symNetworkOptInService |-> r2.instance,
                       symVaultOptInService |-> r3.instance,
                       nativeOperatorRegistry |-> r4.instance]),
     created |-> Append(c3, r4.instance.v.contract)]

(***************************************************************************)
(* utils: the two generic helpers.  `env` is what the chain answers: "ok"  *)
(* or the error the contract call / transport raises.                      *)
(***************************************************************************)
EnvOutcomes == {"ok", "transaction reverted"}

Interaction(helper, contract, method, args) ==
  [helper |-> helper, to |-> contract.address, runner |-> contract.runner,
   method |-> method, args |-> args]

\* `answer` is what the chain answered to the attempt ("none": there was
\* no attempt); `value` is what the caller gets back.
Throw(e) ==
  [ok |-> FALSE, error |-> e, issued |-> <<>>, answer |-> "none",
   value |-> Undefined]

\* the pending-transaction handle of a submitted transaction
TransactionResponse(method) == Obj([transaction |-> method])

\* the decoded return value of a view function
Decoded(method) == Obj([decoded |-> method])

\* submits contract[method](...args) and returns the pending transaction
executeContractMethod(contract, method, args, env) ==
  [ok |-> env = "ok",
   error |-> IF env = "ok" THEN NoError ELSE Err(env, Undefined),
   issued |-> <<Interaction("send", contract, method, args)>>,
   answer |-> env,
   value |-> IF env = "ok" THEN TransactionResponse(method) ELSE Undefined]

\* reads contract[method](...args) and decodes the result
callContractMethod(contract, method, args, env) ==
  [ok |-> env = "ok",
   error |-> IF env = "ok" THEN NoError ELSE Err(env, Undefined),
   issued |-> <<Interaction("call", contract, method, args)>>,
   answer |-> env,
   value |-> IF env = "ok" THEN Decoded(method) ELSE Undefined]

(***************************************************************************)
(* clients/native: NativeOperatorRegistry                                  *)
(***************************************************************************)
NameEmpty == Err("Operator name cannot be empty", Undefined)
FeeOutOfRange ==
  Err("Operator fee must be between 0 and 1000 (0% and 10%)", Undefined)

\* the upper bound of the fee range taken as exclusive
validateOperatorParams_FeeOffByOne(name, operatorFee) ==
  IF ~Truthy(name) THEN NameEmpty
  ELSE IF Trim(name.v) = "" THEN NameEmpty
  ELSE IF JsLess(operatorFee, Num(0)) \/ ~JsLess(operatorFee, Num(1000))
  THEN FeeOutOfRange
  ELSE NoError

\* the name check without trim()
validateOperatorParams_NoTrim(name, operatorFee) ==
  IF ~Truthy(name) THEN NameEmpty
  ELSE IF JsLess(operatorFee, Num(0)) \/ JsLess(Num(1000), operatorFee)
  THEN FeeOutOfRange
  ELSE NoError

validateOperatorParams(name, operatorFee) ==
  IF ~Truthy(name) THEN NameEmpty
  ELSE IF Trim(name.v) = "" THEN NameEmpty
  ELSE IF JsLess(operatorFee, Num(0)) \/ JsLess(Num(1000), operatorFee)
  THEN FeeOutOfRange
  ELSE NoError

\* name and admin forwarded in the wrong order
Native_registerOperator_Reordered(self, name, admin, operatorFee, managers, env) ==
  LET v == validateOperatorParams(name, operatorFee) IN
  IF v # NoError THEN Throw(v)
  ELSE executeContractMethod(self.v.contract, "registerOperator",
         <<admin, name, operatorFee, managers>>, env)

Native_registerOperator(self, name, admin, operatorFee, managers, env) ==
  LET v == validateOperatorParams(name, operatorFee) IN
  IF v # NoError THEN Throw(v)
  ELSE executeContractMethod(self.v.contract, "registerOperator",
         <<name, admin, operatorFee, managers>>, env)

\* unregisterOperator catching the error of the call and returning nothing
Native_unregisterOperator_Swallow(self, operatorIndex, env) ==
  LET r == executeContractMethod(self.v.contract, "unregisterOperator",
             <<operatorIndex>>, env) IN
  IF r.ok THEN r ELSE [r EXCEPT !.ok = TRUE, !.error = NoError]

Native_unregisterOperator(self, operatorIndex, env) ==
  executeContractMethod(self.v.contract, "unregisterOperator",
    <<operatorIndex>>, env)

Native_isOperatorRegistered(self, name, env) ==
  callContractMethod(self.v.contract, "isOperatorRegistered", <<name>>, env)

Native_getOperatorId(self, name, env) ==
  callContractMethod(self.v.contract, "getOperatorId", <<name>>, env)

Native_getOperatorAdmin(self, operatorIndex, env) ==
  callContractMethod(self.v.contract, "getOperatorAdmin",
    <<operatorIndex>>, env)

\* getOperatorFee going through the send helper
Native_getOperatorFee_Send(self, operatorIndex, env) ==
  executeContractMethod(self.v.contract, "getOperatorFee", <<operatorIndex>>,
    env)

Native_getOperatorFee(self, operatorIndex, env) ==
  callContractMethod(self.v.contract, "getOperatorFee", <<operatorIndex>>, env)

Native_isManagerOfOperator(self, operatorIndex, address, env) ==
  callContractMethod(self.v.contract, "isManagerOfOperator",
    <<operatorIndex, address>>, env)

Native_setOperatorManager(self, operatorIndex, managers, isManager, env) ==
  executeContractMethod(self.v.contract, "setOperatorManager",
    <<operatorIndex, managers, isManager>>, env)

\* the two arguments forwarded in the wrong order
Native_transferAdminRole_Swapped(self, operatorIndex, newAdmin, env) ==
  IF ~isAddress(newAdmin)
  THEN Throw(Err("Invalid new admin address: ${newAdmin}", newAdmin))
  ELSE executeContractMethod(self.v.contract, "transferAdminRole",
         <<newAdmin, operatorIndex>>, env)

Native_transferAdminRole(self, operatorIndex, newAdmin, env) ==
  IF ~isAddress(newAdmin)
  THEN Throw(Err("Invalid new admin address: ${newAdmin}", newAdmin))
  ELSE executeContractMethod(self.v.contract, "transferAdminRole",
         <<operatorIndex, newAdmin>>, env)

\* updateOperatorFee without the fee validation
Native_updateOperatorFee_Unchecked(self, operatorIndex, operatorFee, env) ==
  executeContractMethod(self.v.contract, "updateOperatorFee",
    <<operatorIndex, operatorFee>>, env)

Native_updateOperatorFee(self, operatorIndex, operatorFee, env) ==
  LET v == validateOperatorParams(Str("valid-name"), operatorFee) IN
  IF v # NoError THEN Throw(v)
  ELSE executeContractMethod(self.v.contract, "updateOperatorFee",
         <<operatorIndex, operatorFee>>, env)

(***************************************************************************)
(* clients/symbiotic                                                       *)
(***************************************************************************)
Sym_registerOperator(self, env) ==
  executeContractMethod(self.v.contract, "registerOperator", <<>>, env)

\* isOperator calling a view named after itself
Sym_isOperator_WrongMethod(self, operatorAddress, env) ==
  callContractMethod(self.v.contract, "isOperator", <<operatorAddress>>, env)

Sym_isOperator(self, operatorAddress, env) ==
  callContractMethod(self.v.contract, "isEntity", <<operatorAddress>>, env)

Sym_getTotalOperators(self, env) ==
  callContractMethod(self.v.contract, "totalEntities", <<>>, env)

Sym_getOperatorAtIndex(self, index, env) ==
  callContractMethod(self.v.contract, "entity", <<index>>, env)

InvalidAddressProvided == Err("Invalid address provided", Undefined)

Network_optIn(self, networkAddress, env) ==
  IF ~isAddress(networkAddress)
  THEN Throw(Err("Invalid network address: ${networkAddress}", networkAddress))
  ELSE executeContractMethod(self.v.contract, "optIn", <<networkAddress>>, env)

\* optOut forwarding the address unchecked
Network_optOut_Unchecked(self, networkAddress, env) ==
  executeContractMethod(self.v.contract, "optOut", <<networkAddress>>, env)

Network_optOut(self, networkAddress, env) ==
  IF ~isAddress(networkAddress)
  THEN Throw(Err("Invalid network address: ${networkAddress}", networkAddress))
  ELSE executeContractMethod(self.v.contract, "optOut", <<networkAddress>>, env)

Network_isOptedIn(self, operatorAddress, networkAddress, env) ==
  IF ~isAddress(operatorAddress) \/ ~isAddress(networkAddress)
  THEN Throw(InvalidAddressProvided)
  ELSE callContractMethod(self.v.contract, "isOptedIn",
         <<operatorAddress, networkAddress>>, env)

\* optIn refusing an operator that has submitted nothing yet
Vault_optIn_AfterRegistration(self, vaultAddress, env) ==
  IF txCount = 0 THEN Throw(Err("Operator is not registered", Undefined))
  ELSE IF ~isAddress(vaultAddress)
  THEN Throw(Err("Invalid vault address: ${vaultAddress}", vaultAddress))
  ELSE executeContractMethod(self.v.contract, "optIn", <<vaultAddress>>, env)

Vault_optIn(self, vaultAddress, env) ==
  IF ~isAddress(vaultAddress)
  THEN Throw(Err("Invalid vault address: ${vaultAddress}", vaultAddress))
  ELSE executeContractMethod(self.v.contract, "optIn", <<vaultAddress>>, env)

Vault_optOut(self, vaultAddress, env) ==
  IF ~isAddress(vaultAddress)
  THEN Throw(Err("Invalid vault address: ${vaultAddress}", vaultAddress))
  ELSE executeContractMethod(self.v.contract, "optOut", <<vaultAddress>>, env)

\* the check failing only when both addresses are malformed
Vault_isOptedIn_BothBad(self, operatorAddress, vaultAddress, env) ==
  IF ~isAddress(operatorAddress) /\ ~isAddress(vaultAddress)
  THEN Throw(InvalidAddressProvided)
  ELSE callContractMethod(self.v.contract, "isOptedIn",
         <<operatorAddress, vaultAddress>>, env)

Vault_isOptedIn(self, operatorAddress, vaultAddress, env) ==
  IF ~isAddress(operatorAddress) \/ ~isAddress(vaultAddress)
  THEN Throw(InvalidAddressProvided)
  ELSE callContractMethod(self.v.contract, "isOptedIn",
         <<operatorAddress, vaultAddress>>, env)

(***************************************************************************)
(* clients/ByzOperatorClient: the facade.  `c` is the client instance.     *)
(***************************************************************************)
\* signer.getAddress()
getAddress(signer) == Str(signer.v.address)

registerOperator(c, env) == Sym_registerOperator(c.v.symOperatorRegistry, env)

isOperator(c, operatorAddress, env) ==
  Sym_isOperator(c.v.symOperatorRegistry, operatorAddress, env)

getTotalOperators(c, env) ==
  Sym_getTotalOperators(c.v.symOperatorRegistry, env)

getOperatorAtIndex(c, index, env) ==
  Sym_getOperatorAtIndex(c.v.symOperatorRegistry, index, env)

optInNetwork(c, networkAddress, env) ==
  Network_optIn(c.v.symNetworkOptInService, networkAddress, env)

optOutNetwork(c, networkAddress, env) ==
  Network_optOut(c.v.symNetworkOptInService, networkAddress, env)

isOptedInNetwork(c, operatorAddress, networkAddress, env) ==
  Network_isOptedIn(c.v.symNetworkOptInService, operatorAddress,
    networkAddress, env)

optInVault(c, vaultAddress, env) ==
  Vault_optIn(c.v.symVaultOptInService, vaultAddress, env)

optOutVault(c, vaultAddress, env) ==
  Vault_optOut(c.v.symVaultOptInService, vaultAddress, env)

isOptedInVault(c, operatorAddress, vaultAddress, env) ==
  Vault_isOptedIn(c.v.symVaultOptInService, operatorAddress, vaultAddress, env)

\* registerNativeOperator without the fallback to the signer's address
registerNativeOperator_NoAdminDefault(c, name, admin, operatorFee, managers, env) ==
  LET fee == IF operatorFee = Undefined THEN Num(1000) ELSE operatorFee
      mgrs == IF managers = Undefined THEN Arr(<<>>) ELSE managers
  IN Native_registerOperator(c.v.nativeOperatorRegistry, name, admin, fee,
       mgrs, env)

\* operatorFee = 1000 and managers = [] are default parameters: they apply
\* when the argument is undefined.
registerNativeOperator(c, name, admin, operatorFee, managers, env) ==
  LET fee == IF operatorFee = Undefined THEN Num(1000) ELSE operatorFee
      mgrs == IF managers = Undefined THEN Arr(<<>>) ELSE managers
      adm == IF ~Truthy(admin) THEN getAddress(c.v.signer) ELSE admin
  IN Native_registerOperator(c.v.nativeOperatorRegistry, name, adm, fee,
       mgrs, env)

unregisterNativeOperator(c, operatorIndex, env) ==
  Native_unregisterOperator(c.v.nativeOperatorRegistry, operatorIndex, env)

isNativeOperatorRegistered(c, name, env) ==
  Native_isOperatorRegistered(c.v.nativeOperatorRegistry, name, env)

getNativeOperatorId(c, name, env) ==
  Native_getOperatorId(c.v.nativeOperatorRegistry, name, env)

getNativeOperatorAdmin(c, operatorIndex, env) ==
  Native_getOperatorAdmin(c.v.nativeOperatorRegistry, operatorIndex, env)

getNativeOperatorFee(c, operatorIndex, env) ==
  Native_getOperatorFee(c.v.nativeOperatorRegistry, operatorIndex, env)

isNativeOperatorManager(c, operatorIndex, address, env) ==
  Native_isManagerOfOperator(c.v.nativeOperatorRegistry, operatorIndex,
    address, env)

setNativeOperatorManager(c, operatorIndex, managers, isManager, env) ==
  Native_setOperatorManager(c.v.nativeOperatorRegistry, operatorIndex,
    managers, isManager, env)

transferNativeAdminRole(c, operatorIndex, newAdmin, env) ==
  Native_transferAdminRole(c.v.nativeOperatorRegistry, operatorIndex,
    newAdmin, env)

updateNativeOperatorFee(c, operatorIndex, operatorFee, env) ==
  Native_updateOperatorFee(c.v.nativeOperatorRegistry, operatorIndex,
    operatorFee, env)

\* the utility method: no contract interaction
clientGetNetworkConfig(c) == getNetworkConfig(c.v.chainId)

(***************************************************************************)
(* The inputs explored.                                                    *)
(***************************************************************************)
Wallet == Obj([address |-> "0x1111111111111111111111111111111111111111"])
RpcProvider == Obj([url |-> "RPC_URL"])

ChainIdInputs ==
  {Undefined, Num(1), Num(17000), Num(11155111), Num(560048), Num(5)}
SignerInputs == {Undefined, Wallet}
ProviderInputs == {RpcProvider}

GoodAddress == "0x4535bd6fF24860b5fd2889857651a85fb3d3C6b1"
BadChecksumAddress == "0x4535bd6ff24860b5fd2889857651a85fb3d3C6b1"
ShortAddress == "0x123..."

AddressInputs ==
  {Str(ZeroAddress), Str(GoodAddress), Str(BadChecksumAddress),
   Str(ShortAddress), Str("")}
NameInputs == {Str(""), Str("  "), Str("Benoit"), Str(" a ")}
AdminInputs == {Undefined, Str(""), Str(GoodAddress), Str(ShortAddress)}
FeeInputs ==
  {Undefined, NaN, Num(-1), Num(0), Num(1000), Num(1001), Num(1500)}
ManagersInputs ==
  {Undefined, Arr(<<Str(GoodAddress)>>), Arr(<<Str(ShortAddress)>>)}
ManagerLists == ManagersInputs \ {Undefined}
OperatorIndexInputs == {Str("0x01")}
IndexInputs == {Num(0)}
BoolInputs == {Bool(TRUE), Bool(FALSE)}

(***************************************************************************)
(* State machine.                                                          *)
(***************************************************************************)
NoClient == Undefined

Sends(issued) == Cardinality({i \in DOMAIN issued : issued[i].helper = "send"})

\* an async method that has not been called, or has settled
Idle == Undefined
NoneInFlight == [s \in 1..MaxInflight |-> Idle]

Init ==
  /\ networks = NETWORKS
  /\ client = NoClient
  /\ inflight = NoneInFlight
  /\ last = [op |-> "none", args |-> <<>>, ok |-> TRUE, error |-> NoError,
             issued |-> <<>>, created |-> <<>>, answer |-> "none",
             value |-> Undefined]
  /\ txCount = 0

\* new ByzOperatorClient(options): a throw leaves no instance behind.
Construct ==
  \E chainId \in ChainIdInputs, provider \in ProviderInputs,
     signer \in SignerInputs :
    LET r == ByzOperatorClient_constructor(
               [chainId |-> chainId, provider |-> provider,
                signer |-> signer]) IN
    /\ client' = IF r.ok THEN r.instance ELSE client
    /\ last' = [op |-> "constructor", args |-> <<chainId, provider, signer>>,
                ok |-> r.ok, error |-> r.error, issued |-> <<>>,
                created |-> r.created, answer |-> "none",
                value |-> r.instance]
    /\ UNCHANGED <<txCount, inflight, networks>>

\* The effect of one facade call whose outcome is r.
Facade(op, args, r) ==
  /\ txCount + Sends(r.issued) <= MaxTx
  /\ last' = [op |-> op, args |-> args, ok |-> r.ok, error |-> r.error,
              issued |-> r.issued, created |-> <<>>, answer |-> r.answer,
              value |-> r.value]
  /\ txCount' = txCount + Sends(r.issued)
  /\ UNCHANGED <<client, inflight, networks>>

RegisterOperator ==
  /\ client # NoClient
  /\ \E env \in EnvOutcomes :
       Facade("registerOperator", <<>>, registerOperator(client, env))

IsOperator ==
  /\ client # NoClient
  /\ \E a \in AddressInputs, env \in EnvOutcomes :
       Facade("isOperator", <<a>>, isOperator(client, a, env))

GetTotalOperators ==
  /\ client # NoClient
  /\ \E env \in EnvOutcomes :
       Facade("getTotalOperators", <<>>, getTotalOperators(client, env))

GetOperatorAtIndex ==
  /\ client # NoClient
  /\ \E i \in IndexInputs, env \in EnvOutcomes :
       Facade("getOperatorAtIndex", <<i>>, getOperatorAtIndex(client, i, env))

OptInNetwork ==
  /\ client # NoClient
  /\ \E a \in AddressInputs, env \in EnvOutcomes :
       Facade("optInNetwork", <<a>>, optInNetwork(client, a, env))

OptOutNetwork ==
  /\ client # NoClient
  /\ \E a \in AddressInputs, env \in EnvOutcomes :
       Facade("optOutNetwork", <<a>>, optOutNetwork(client, a, env))

IsOptedInNetwork ==
  /\ client # NoClient
  /\ \E o \in AddressInputs, a \in AddressInputs, env \in EnvOutcomes :
       Facade("isOptedInNetwork", <<o, a>>,
              isOptedInNetwork(client, o, a, env))

OptInVault ==
  /\ client # NoClient
  /\ \E a \in AddressInputs, env \in EnvOutcomes :
       Facade("optInVault", <<a>>, optInVault(client, a, env))

OptOutVault ==
  /\ client # NoClient
  /\ \E a \in AddressInputs, env \in EnvOutcomes :
       Facade("optOutVault", <<a>>, optOutVault(client, a, env))

IsOptedInVault ==
  /\ client # NoClient
  /\ \E o \in AddressInputs, a \in AddressInputs, env \in EnvOutcomes :
       Facade("isOptedInVault", <<o, a>>, isOptedInVault(client, o, a, env))

RegisterNativeOperator ==
  /\ client # NoClient
  /\ \E name \in NameInputs, admin \in AdminInputs, fee \in FeeInputs,
        managers \in ManagersInputs, env \in EnvOutcomes :
       Facade("registerNativeOperator", <<name, admin, fee, managers>>,
              registerNativeOperator(client, name, admin, fee, managers, env))

UnregisterNativeOperator ==
  /\ client # NoClient
  /\ \E idx \in OperatorIndexInputs, env \in EnvOutcomes :
       Facade("unregisterNativeOperator", <<idx>>,
              unregisterNativeOperator(client, idx, env))

IsNativeOperatorRegistered ==
  /\ client # NoClient
  /\ \E name \in NameInputs, env \in EnvOutcomes :
       Facade("isNativeOperatorRegistered", <<name>>,
              isNativeOperatorRegistered(client, name, env))

GetNativeOperatorId ==
  /\ client # NoClient
  /\ \E name \in NameInputs, env \in EnvOutcomes :
       Facade("getNativeOperatorId", <<name>>,
              getNativeOperatorId(client, name, env))

GetNativeOperatorAdmin ==
  /\ client # NoClient
  /\ \E idx \in OperatorIndexInputs, env \in EnvOutcomes :
       Facade("getNativeOperatorAdmin", <<idx>>,
              getNativeOperatorAdmin(client, idx, env))

GetNativeOperatorFee ==
  /\ client # NoClient
  /\ \E idx \in OperatorIndexInputs, env \in EnvOutcomes :
       Facade("getNativeOperatorFee", <<idx>>,
              getNativeOperatorFee(client, idx, env))

IsNativeOperatorManager ==
  /\ client # NoClient
  /\ \E idx \in OperatorIndexInputs, a \in AddressInputs, env \in EnvOutcomes :
       Facade("isNativeOperatorManager", <<idx, a>>,
              isNativeOperatorManager(client, idx, a, env))

SetNativeOperatorManager ==
  /\ client # NoClient
  /\ \E idx \in OperatorIndexInputs, managers \in ManagerLists,
        b \in BoolInputs, env \in EnvOutcomes :
       Facade("setNativeOperatorManager", <<idx, managers, b>>,
              setNativeOperatorManager(client, idx, managers, b, env))

TransferNativeAdminRole ==
  /\ client # NoClient
  /\ \E idx \in OperatorIndexInputs, a \in AddressInputs, env \in EnvOutcomes :
       Facade("transferNativeAdminRole", <<idx, a>>,
              transferNativeAdminRole(client, idx, a, env))

UpdateNativeOperatorFee ==
  /\ client # NoClient
  /\ \E idx \in OperatorIndexInputs, fee \in FeeInputs, env \in EnvOutcomes :
       Facade("updateNativeOperatorFee", <<idx, fee>>,
              updateNativeOperatorFee(client, idx, fee, env))

\* client.getNetworkConfig(): a table lookup, nothing is issued
GetNetworkConfig ==
  /\ client # NoClient
  /\ Facade("getNetworkConfig", <<>>,
            [ok |-> TRUE, error |-> NoError, issued |-> <<>>,
             answer |-> "none", value |-> clientGetNetworkConfig(client)])

\* getNetworkConfig(chainId) as exported by index.ts: no client is needed
ExportedGetNetworkConfig ==
  \E chainId \in ChainIdInputs :
    /\ last' = [op |-> "networks.getNetworkConfig", args |-> <<chainId>>,
                ok |-> TRUE, error |-> NoError, issued |-> <<>>,
                created |-> <<>>, answer |-> "none",
                value |-> getNetworkConfig(chainId)]
    /\ UNCHANGED <<client, txCount, inflight, networks>>

\* ascending order of the integer keys, as Object.keys lists them
RECURSIVE Ascending(_)
Ascending(S) ==
  IF S = {} THEN <<>>
  ELSE LET m == CHOOSE x \in S : \A y \in S : x <= y
       IN <<Num(m)>> \o Ascending(S \ {m})

Exported(op, args, value) ==
  /\ last' = [op |-> op, args |-> args, ok |-> TRUE, error |-> NoError,
              issued |-> <<>>, created |-> <<>>, answer |-> "none",
              value |-> value]
  /\ UNCHANGED <<client, txCount, inflight, networks>>

\* isChainSupported(chainId) as exported by index.ts
ExportedIsChainSupported ==
  \E chainId \in ChainIdInputs :
    Exported("networks.isChainSupported", <<chainId>>,
             Bool(isChainSupported(chainId)))

\* getSupportedChainIds() as exported by index.ts
ExportedGetSupportedChainIds ==
  Exported("networks.getSupportedChainIds", <<>>,
           Arr(Ascending(getSupportedChainIds)))

Next ==
  \/ Construct
  \/ RegisterOperator
  \/ IsOperator
  \/ GetTotalOperators
  \/ GetOperatorAtIndex
  \/ OptInNetwork
  \/ OptOutNetwork
  \/ IsOptedInNetwork
  \/ OptInVault
  \/ OptOutVault
  \/ IsOptedInVault
  \/ RegisterNativeOperator
  \/ UnregisterNativeOperator
  \/ IsNativeOperatorRegistered
  \/ GetNativeOperatorId
  \/ GetNativeOperatorAdmin
  \/ GetNativeOperatorFee
  \/ IsNativeOperatorManager
  \/ SetNativeOperatorManager
  \/ TransferNativeAdminRole
  \/ UpdateNativeOperatorFee
  \/ GetNetworkConfig
  \/ ExportedGetNetworkConfig
  \/ ExportedIsChainSupported
  \/ ExportedGetSupportedChainIds

Spec == Init /\ [][Next]_vars

(***************************************************************************)
(* The calls of one client interleaving.  An async method runs up to its   *)
(* next await in one step: registerNativeOperator awaits                   *)
(* signer.getAddress() when no admin is given, every method awaits the     *)
(* answer of the chain.  `inflight` holds the calls begun and not settled. *)
(***************************************************************************)
AsyncAddressInputs == {Str(GoodAddress), Str(ShortAddress)}
AsyncNameInputs == {Str("Benoit"), Str("")}
AsyncAdminInputs == {Undefined, Str(GoodAddress)}
AsyncFeeInputs == {Undefined, Num(1001)}

\* the clients a signer can construct
Clients ==
  LET made == {ByzOperatorClient_constructor(
                 [chainId |-> chainId, provider |-> provider,
                  signer |-> signer]) :
                 chainId \in ChainIdInputs, provider \in ProviderInputs,
                 signer \in SignerInputs}
  IN {r.instance : r \in {m \in made : m.ok}}

InitAsync ==
  /\ networks = NETWORKS
  /\ client \in Clients
  /\ inflight = NoneInFlight
  /\ last = [op |-> "none", args |-> <<>>, ok |-> TRUE, error |-> NoError,
             issued |-> <<>>, created |-> <<>>, answer |-> "none",
             value |-> Undefined]
  /\ txCount = 0

\* the sub-client method a facade method returns the promise of, applied
\* to the arguments the facade forwards
Delegate(op, fwd, env) ==
  CASE op = "registerOperator"
         -> Sym_registerOperator(client.v.symOperatorRegistry, env)
    [] op = "optInNetwork"
         -> Network_optIn(client.v.symNetworkOptInService, fwd[1], env)
    [] op = "optInVault"
         -> Vault_optIn(client.v.symVaultOptInService, fwd[1], env)
    [] op = "registerNativeOperator"
         -> Native_registerOperator(client.v.nativeOperatorRegistry, fwd[1],
              fwd[2], fwd[3], fwd[4], env)

Settled(op, args, r) ==
  [op |-> op, args |-> args, ok |-> r.ok, error |-> r.error,
   issued |-> r.issued, created |-> <<>>, answer |-> r.answer,
   value |-> r.value]

\* The sub-client method runs up to the await of the helper: a failed
\* validation rejects the promise at once, otherwise the interaction
\* leaves and the call waits in slot s for the answer of the chain.
RunToChain(s, op, args, fwd) ==
  LET r == Delegate(op, fwd, "ok") IN
  IF ~r.ok
  THEN /\ last' = Settled(op, args, r)
       /\ inflight' = [inflight EXCEPT ![s] = Idle]
       /\ UNCHANGED <<client, txCount, networks>>
  ELSE /\ txCount + Sends(r.issued) <= MaxAsyncTx
       /\ inflight' = [inflight EXCEPT ![s] =
                         [op |-> op, args |-> args, fwd |-> fwd,
                          pc |-> "chain", issued |-> r.issued]]
       /\ txCount' = txCount + Sends(r.issued)
       /\ UNCHANGED <<client, last, networks>>

FreeSlot(s) ==
  /\ inflight[s] = Idle
  /\ \A t \in 1..(s - 1) : inflight[t] # Idle

BeginRegisterOperator ==
  \E s \in 1..MaxInflight :
    /\ FreeSlot(s)
    /\ RunToChain(s, "registerOperator", <<>>, <<>>)

BeginOptInNetwork ==
  \E s \in 1..MaxInflight, a \in AsyncAddressInputs :
    /\ FreeSlot(s)
    /\ RunToChain(s, "optInNetwork", <<a>>, <<a>>)

BeginOptInVault ==
  \E s \in 1..MaxInflight, a \in AsyncAddressInputs :
    /\ FreeSlot(s)
    /\ RunToChain(s, "optInVault", <<a>>, <<a>>)

\* registerNativeOperator up to its first await
BeginRegisterNativeOperator ==
  \E s \in 1..MaxInflight, name \in AsyncNameInputs,
     admin \in AsyncAdminInputs, operatorFee \in AsyncFeeInputs :
    LET managers == Undefined
        args == <<name, admin, operatorFee, managers>>
        fee == IF operatorFee = Undefined THEN Num(1000) ELSE operatorFee
        mgrs == IF managers = Undefined THEN Arr(<<>>) ELSE managers
        fwd == <<name, admin, fee, mgrs>>
    IN /\ FreeSlot(s)
       /\ IF ~Truthy(admin)
          THEN /\ inflight' = [inflight EXCEPT ![s] =
                                [op |-> "registerNativeOperator",
                                 args |-> args, fwd |-> fwd,
                                 pc |-> "getAddress", issued |-> <<>>]]
               /\ UNCHANGED <<client, last, txCount, networks>>
          ELSE RunToChain(s, "registerNativeOperator", args, fwd)

\* signer.getAddress() has resolved: admin = the address, then the
\* sub-client method
ResumeRegisterNativeOperator ==
  \E s \in 1..MaxInflight :
    /\ inflight[s] # Idle
    /\ inflight[s].pc = "getAddress"
    /\ LET c == inflight[s]
           fwd == [c.fwd EXCEPT ![2] = getAddress(client.v.signer)]
       IN RunToChain(s, c.op, c.args, fwd)

\* the chain answers the call waiting in slot s
Settle ==
  \E s \in 1..MaxInflight, env \in EnvOutcomes :
    /\ inflight[s] # Idle
    /\ inflight[s].pc = "chain"
    /\ LET c == inflight[s] IN
       last' = Settled(c.op, c.args, Delegate(c.op, c.fwd, env))
    /\ inflight' = [inflight EXCEPT ![s] = Idle]
    /\ UNCHANGED <<client, txCount, networks>>

NextAsync ==
  \/ BeginRegisterOperator
  \/ BeginOptInNetwork
  \/ BeginOptInVault
  \/ BeginRegisterNativeOperator
  \/ ResumeRegisterNativeOperator
  \/ Settle

SpecAsync == InitAsync /\ [][NextAsync]_vars

(***************************************************************************)
(* Construction over a table whose Holesky entry lacks one of the four     *)
(* addresses: the field is absent, the empty string or the zero address.   *)
(***************************************************************************)
Without(entry, field) == [g \in (DOMAIN entry) \ {field} |-> entry[g]]

Tables ==
  {NETWORKS}
  \cup {[NETWORKS EXCEPT ![17000] = Without(NETWORKS[17000], f)] :
          f \in {"byzOperatorRegistry", "operatorRegistry",
                 "operatorNetworkOptInService", "operatorVaultOptInService"}}
  \cup {[NETWORKS EXCEPT ![17000][f] = a] :
          f \in {"byzOperatorRegistry", "operatorRegistry",
                 "operatorNetworkOptInService", "operatorVaultOptInService"},
          a \in {"", ZeroAddress}}

InitTable ==
  /\ networks \in Tables
  /\ client = NoClient
  /\ inflight = NoneInFlight
  /\ last = [op |-> "none", args |-> <<>>, ok |-> TRUE, error |-> NoError,
             issued |-> <<>>, created |-> <<>>, answer |-> "none",
             value |-> Undefined]
  /\ txCount = 0

\* new <sub-client>(provider, signer, chainId), with outcome r
NewSubClient(op, chainId, provider, signer, r) ==
  /\ last' = [op |-> op, args |-> <<chainId, provider, signer>>,
              ok |-> r.ok, error |-> r.error, issued |-> <<>>,
              created |-> IF r.ok THEN <<r.instance.v.contract>> ELSE <<>>,
              answer |-> "none", value |-> r.instance]
  /\ UNCHANGED <<client, txCount, inflight, networks>>

NewOperatorRegistry ==
  \E chainId \in ChainIdInputs, provider \in ProviderInputs,
     signer \in SignerInputs :
    NewSubClient("new OperatorRegistry", chainId, provider, signer,
      OperatorRegistry_constructor(provider, signer, chainId))

NewOperatorNetworkOptInService ==
  \E chainId \in ChainIdInputs, provider \in ProviderInputs,
     signer \in SignerInputs :
    NewSubClient("new OperatorNetworkOptInService", chainId, provider, signer,
      OperatorNetworkOptInService_constructor(provider, signer, chainId))

NewOperatorVaultOptInService ==
  \E chainId \in ChainIdInputs, provider \in ProviderInputs,
     signer \in SignerInputs :
    NewSubClient("new OperatorVaultOptInService", chainId, provider, signer,
      OperatorVaultOptInService_constructor(provider, signer, chainId))

NewNativeOperatorRegistry ==
  \E chainId \in ChainIdInputs, provider \in ProviderInputs,
     signer \in SignerInputs :
    NewSubClient("new NativeOperatorRegistry", chainId, provider, signer,
      NativeOperatorRegistry_constructor(provider, signer, chainId))

NextTable ==
  \/ Construct
  \/ NewOperatorRegistry
  \/ NewOperatorNetworkOptInService
  \/ NewOperatorVaultOptInService
  \/ NewNativeOperatorRegistry

SpecTable == InitTable /\ [][NextTable]_vars

(***************************************************************************)
(* Vocabulary of the properties.                                           *)
(***************************************************************************)
Calls(op) == last.op = op
Rejected(e) == ~last.ok /\ last.error = e /\ last.issued = <<>>
Blank(name) == CharsOf(name.v) \subseteq {" "}
FeeBelowOrAbove(f) == f.t = "number" /\ (f.v < 0 \/ f.v > 1000)
FeeWithin(f) == f.t = "number" /\ 0 <= f.v /\ f.v <= 1000
Malformed(a) == ~isAddress(a)

\* C1 (as stated): registerNativeOperator and updateNativeOperatorFee reject
\* every fee below 0 or above 1000 with the fee error and submit nothing;
\* every fee within [0, 1000] passes the fee check.
C1_FeeRejectedWithFeeError ==
  /\ (Calls("registerNativeOperator") /\ FeeBelowOrAbove(last.args[3]))
       => Rejected(FeeOutOfRange)
  /\ (Calls("updateNativeOperatorFee") /\ FeeBelowOrAbove(last.args[2]))
       => Rejected(FeeOutOfRange)
  /\ (Calls("registerNativeOperator") /\ FeeWithin(last.args[3]))
       => last.error # FeeOutOfRange
  /\ (Calls("updateNativeOperatorFee") /\ FeeWithin(last.args[2]))
       => last.error # FeeOutOfRange

\* C1 (amended): a fee below 0 or above 1000 is always rejected and nothing
\* is submitted; the error is the fee error for updateNativeOperatorFee and
\* for registerNativeOperator with a non-blank name, and the name error for
\* registerNativeOperator with a blank name (the name is checked first).
\* Every fee within [0, 1000] passes the fee check: updateNativeOperatorFee
\* and registerNativeOperator with a non-blank name then submit.
C1_FeeRangeEnforced ==
  /\ (Calls("registerNativeOperator") /\ FeeBelowOrAbove(last.args[3]))
       => Rejected(IF Blank(last.args[1]) THEN NameEmpty ELSE FeeOutOfRange)
  /\ (Calls("updateNativeOperatorFee") /\ FeeBelowOrAbove(last.args[2]))
       => Rejected(FeeOutOfRange)
  /\ (Calls("registerNativeOperator") /\ FeeWithin(last.args[3]))
       => /\ last.error # FeeOutOfRange
          /\ ~Blank(last.args[1]) => Len(last.issued) = 1
  /\ (Calls("updateNativeOperatorFee") /\ FeeWithin(last.args[2]))
       => /\ last.error # FeeOutOfRange
          /\ Len(last.issued) = 1

C1_Witness ==
  /\ Calls("registerNativeOperator")
  /\ last.args[1] = Str("Benoit")
  /\ last.args[3] = Num(1001)
  /\ Rejected(FeeOutOfRange)
  /\ txCount = 0

\* C2: registerNativeOperator with an empty or whitespace-only name is
\* rejected with "Operator name cannot be empty" and submits no
\* registerOperator transaction.
C2_BlankNameRejected ==
  (Calls("registerNativeOperator") /\ Blank(last.args[1]))
    => Rejected(NameEmpty)

C2_Witness ==
  /\ Calls("registerNativeOperator")
  /\ last.args[1] = Str("  ")
  /\ FeeWithin(last.args[3])
  /\ Rejected(NameEmpty)

C5_TransferAdminRole ==
  Calls("transferNativeAdminRole") =>
    IF Malformed(last.args[2])
    THEN Rejected(Err("Invalid new admin address: ${newAdmin}", last.args[2]))
    ELSE /\ Len(last.issued) = 1
         /\ last.issued[1].helper = "send"
         /\ last.issued[1].method = "transferAdminRole"
         /\ last.issued[1].args = <<last.args[1], last.args[2]>>
         /\ last.issued[1].to = client.v.nativeOperatorRegistry.v.contract.address

C5_Witness ==
  /\ Calls("transferNativeAdminRole")
  /\ last.args[2] = Str(GoodAddress)
  /\ last.ok
  /\ Len(last.issued) = 1
  /\ txCount = 1

\* C6 (as stated): every facade method validates the addresses it takes
\* before delegating: registerNativeOperator (admin and each manager),
\* setNativeOperatorManager (each manager), isNativeOperatorManager and
\* isOperator issue no contract call when an address is malformed.
C6_AllAddressesValidated ==
  /\ (Calls("isOperator") /\ Malformed(last.args[1])) => last.issued = <<>>
  /\ (Calls("isNativeOperatorManager") /\ Malformed(last.args[2]))
       => last.issued = <<>>
  /\ (Calls("setNativeOperatorManager")
        /\ \E i \in DOMAIN last.args[2].v : Malformed(last.args[2].v[i]))
       => last.issued = <<>>
  /\ (Calls("registerNativeOperator")
        /\ \/ Truthy(last.args[2]) /\ Malformed(last.args[2])
           \/ /\ last.args[4] # Undefined
              /\ \E i \in DOMAIN last.args[4].v : Malformed(last.args[4].v[i]))
       => last.issued = <<>>

\* C7: constructing with a chainId that has no entry in NETWORKS fails with
\* "Chain ID <id> is not supported" before any contract object is created,
\* and no client instance for an unsupported chain exists.
InTable(chainId) == chainId.t = "number" /\ chainId.v \in {1, 17000, 11155111}

C7_UnsupportedChainRejected ==
  /\ (Calls("constructor") /\ ~InTable(last.args[1]))
       => /\ ~last.ok
          /\ last.error = Err("Chain ID ${chainId} is not supported",
                              last.args[1])
          /\ last.created = <<>>
  /\ client # NoClient => InTable(client.v.chainId)

C7_Witness ==
  /\ Calls("constructor")
  /\ last.args[1] = Num(5)
  /\ Truthy(last.args[3])
  /\ ~last.ok
  /\ client = NoClient

\* C8: constructing on a supported chain without a signer fails with
\* "Signer is required for operator client" before any sub-client is
\* created; every client instance has a signer and each of its contract
\* objects is bound to that signer.
SubClients(c) ==
  {c.v.symOperatorRegistry, c.v.symNetworkOptInService,
   c.v.symVaultOptInService, c.v.nativeOperatorRegistry}

C8_SignerRequired ==
  /\ (Calls("constructor") /\ InTable(last.args[1]) /\ ~Truthy(last.args[3]))
       => /\ ~last.ok
          /\ last.error = SignerRequired
          /\ last.created = <<>>
  /\ client # NoClient =>
       /\ Truthy(client.v.signer)
       /\ \A sub \in SubClients(client) :
            sub.v.contract.runner = client.v.signer
  /\ (Calls("constructor") /\ last.ok) =>
       /\ Len(last.created) = 4
       /\ \A i \in DOMAIN last.created : last.created[i].runner = last.args[3]

C8_Witness ==
  /\ Calls("constructor")
  /\ last.args[1] = Num(17000)
  /\ last.args[3] = Undefined
  /\ last.error = SignerRequired
  /\ client = NoClient

\* C9 (as stated): construction with chainId 560048 (Hoodi) and a signer
\* succeeds and yields a usable client.
C9_HoodiConstructs ==
  (Calls("constructor") /\ last.args[1] = Num(560048) /\ Truthy(last.args[3]))
    => /\ last.ok
       /\ client # NoClient
       /\ client.v.chainId = Num(560048)

\* C10 (as stated): a client constructed without an explicit chainId
\* operates on chain 17000 and targets the Holesky contract addresses.
C10_DefaultsToHolesky ==
  (Calls("constructor") /\ last.args[1] = Undefined /\ Truthy(last.args[3]))
    => /\ last.ok
       /\ client # NoClient
       /\ client.v.chainId = Num(17000)
       /\ client.v.nativeOperatorRegistry.v.contract.address
            = Str(NETWORKS[17000].byzOperatorRegistry)
       /\ client.v.symOperatorRegistry.v.contract.address
            = Str(NETWORKS[17000].operatorRegistry)


(***************************************************************************)
(* One interaction per call, reads and writes, errors of the chain.        *)
(***************************************************************************)
ReadMethods ==
  {"isOperator", "getTotalOperators", "getOperatorAtIndex",
   "isOptedInNetwork", "isOptedInVault", "isNativeOperatorRegistered",
   "getNativeOperatorId", "getNativeOperatorAdmin", "getNativeOperatorFee",
   "isNativeOperatorManager", "getNetworkConfig"}

WriteMethods ==
  {"registerOperator", "optInNetwork", "optOutNetwork", "optInVault",
   "optOutVault", "registerNativeOperator", "unregisterNativeOperator",
   "setNativeOperatorManager", "transferNativeAdminRole",
   "updateNativeOperatorFee"}

PublicMethods == ReadMethods \cup WriteMethods

\* the contract method each wrapping facade method is said to reach
MethodMapping ==
  [op \in PublicMethods \ {"getNetworkConfig"} |->
     CASE op = "registerOperator" -> "registerOperator"
       [] op = "isOperator" -> "isEntity"
       [] op = "getTotalOperators" -> "totalEntities"
       [] op = "getOperatorAtIndex" -> "entity"
       [] op \in {"optInNetwork", "optInVault"} -> "optIn"
       [] op \in {"optOutNetwork", "optOutVault"} -> "optOut"
       [] op \in {"isOptedInNetwork", "isOptedInVault"} -> "isOptedIn"
       [] op = "registerNativeOperator" -> "registerOperator"
       [] op = "unregisterNativeOperator" -> "unregisterOperator"
       [] op = "isNativeOperatorRegistered" -> "isOperatorRegistered"
       [] op = "getNativeOperatorId" -> "getOperatorId"
       [] op = "getNativeOperatorAdmin" -> "getOperatorAdmin"
       [] op = "getNativeOperatorFee" -> "getOperatorFee"
       [] op = "isNativeOperatorManager" -> "isManagerOfOperator"
       [] op = "setNativeOperatorManager" -> "setOperatorManager"
       [] op = "transferNativeAdminRole" -> "transferAdminRole"
       [] op = "updateNativeOperatorFee" -> "updateOperatorFee"]

\* whether the arguments of a call get through the checks of the SDK,
\* read off the arguments alone
ValidationPasses(op, args) ==
  CASE op \in {"optInNetwork", "optOutNetwork", "optInVault", "optOutVault"}
         -> ~Malformed(args[1])
    [] op \in {"isOptedInNetwork", "isOptedInVault"}
         -> ~Malformed(args[1]) /\ ~Malformed(args[2])
    [] op = "transferNativeAdminRole" -> ~Malformed(args[2])
    [] op = "registerNativeOperator"
         -> ~Blank(args[1]) /\ ~FeeBelowOrAbove(args[3])
    [] op = "updateNativeOperatorFee" -> ~FeeBelowOrAbove(args[2])
    [] OTHER -> TRUE

\* C11 (as stated): each public method of the client, its validation
\* passed, results in exactly one contract interaction, through the fixed
\* method mapping.  getNetworkConfig is a public method and reaches no
\* contract.
C11_EveryPublicMethodInteractsOnce ==
  (last.op \in PublicMethods /\ ValidationPasses(last.op, last.args)) =>
    /\ Len(last.issued) = 1
    /\ last.op \in DOMAIN MethodMapping
         => last.issued[1].method = MethodMapping[last.op]

\* C11 (amended): each public method other than getNetworkConfig, its
\* validation passed, results in exactly one interaction, with the contract
\* method of the mapping; a call whose validation fails issues none;
\* getNetworkConfig issues none; no call issues a second interaction.
C11_WrappersInteractOnce ==
  /\ last.op \in DOMAIN MethodMapping =>
       IF ValidationPasses(last.op, last.args)
       THEN /\ Len(last.issued) = 1
            /\ last.issued[1].method = MethodMapping[last.op]
       ELSE last.issued = <<>>
  /\ Calls("getNetworkConfig") => last.issued = <<>>
  /\ Len(last.issued) <= 1

C11_Witness ==
  /\ Calls("isOperator")
  /\ last.ok
  /\ Len(last.issued) = 1
  /\ last.issued[1].method = "isEntity"

\* C12: a read method never submits a transaction, so a read call leaves
\* the count of submitted transactions as it was and what it issues goes
\* through the call helper; only the write methods go through the send
\* helper.
C12_ReadsSubmitNothing ==
  /\ [](\A i \in DOMAIN last.issued :
          /\ last.op \in ReadMethods => last.issued[i].helper = "call"
          /\ last.issued[i].helper = "send" => last.op \in WriteMethods)
  /\ [][last'.op \in ReadMethods => txCount' = txCount]_vars

C12_Witness ==
  /\ Calls("getNativeOperatorFee")
  /\ Len(last.issued) = 1
  /\ txCount = 1

\* C13: when the contract call or the submission raises an error, the
\* facade call fails with that very error and returns nothing; a facade
\* call makes at most one attempt; a call that succeeds was answered
\* without error or reached no contract.
C13_ErrorsPropagate ==
  last.op \in PublicMethods =>
    /\ Len(last.issued) <= 1
    /\ last.answer \notin {"none", "ok"} =>
         /\ ~last.ok
         /\ last.error = Err(last.answer, Undefined)
         /\ last.value = Undefined
         /\ Len(last.issued) = 1
    /\ last.ok => last.answer \in {"none", "ok"}

C13_Witness ==
  /\ Calls("unregisterNativeOperator")
  /\ last.answer = "transaction reverted"
  /\ ~last.ok
  /\ last.error = Err("transaction reverted", Undefined)

WellFormedAddresses ==
  {Str("0x0000000000000000000000000000000000000000"),
   Str("0x4535bd6fF24860b5fd2889857651a85fb3d3C6b1")}

\* C15: isOptedInNetwork and isOptedInVault, given two well-formed 20-byte
\* addresses, the zero address included, pass the validation and perform
\* the isOptedIn read with those two addresses.
C15_WellFormedAddressesAccepted ==
  ( /\ last.op \in {"isOptedInNetwork", "isOptedInVault"}
    /\ last.args[1] \in WellFormedAddresses
    /\ last.args[2] \in WellFormedAddresses ) =>
    /\ last.error # InvalidAddressProvided
    /\ Len(last.issued) = 1
    /\ last.issued[1].helper = "call"
    /\ last.issued[1].method = "isOptedIn"
    /\ last.issued[1].args = last.args
    /\ last.answer = "ok" => last.ok

C15_Witness ==
  /\ Calls("isOptedInVault")
  /\ last.args = <<Str(ZeroAddress), Str(ZeroAddress)>>
  /\ last.ok
  /\ Len(last.issued) = 1

\* C16: registerNativeOperator with a name that is not blank, an explicit
\* admin, a fee within 0..1000 and a managers list submits exactly one
\* registerOperator transaction whose arguments are (name, admin,
\* operatorFee, managers) in that order, and returns its handle.
C16_RegisterForwardsArguments ==
  ( /\ Calls("registerNativeOperator")
    /\ ~Blank(last.args[1])
    /\ Truthy(last.args[2])
    /\ FeeWithin(last.args[3])
    /\ last.args[4] # Undefined ) =>
    /\ Len(last.issued) = 1
    /\ last.issued[1].helper = "send"
    /\ last.issued[1].method = "registerOperator"
    /\ last.issued[1].args = last.args
    /\ last.issued[1].to = client.v.nativeOperatorRegistry.v.contract.address
    /\ last.answer = "ok" =>
         /\ last.ok
         /\ last.value = TransactionResponse("registerOperator")

C16_Witness ==
  /\ Calls("registerNativeOperator")
  /\ last.args = <<Str("Benoit"), Str(GoodAddress), Num(1000),
                   Arr(<<Str(GoodAddress)>>)>>
  /\ last.ok
  /\ txCount = 1

\* C17: registerNativeOperator forwards the signer's address as admin when
\* no admin is given, 1000 as fee when the fee is omitted and the empty
\* list when managers is omitted; an explicit non-empty admin, a given fee
\* and a given list are forwarded unchanged; with a name that is not blank
\* and the fee omitted the call reaches the contract.
C17_RegisterDefaults ==
  Calls("registerNativeOperator") =>
    /\ Len(last.issued) = 1 =>
         /\ last.issued[1].args[2] =
              IF last.args[2] \in {Undefined, Str("")}
              THEN Str("0x1111111111111111111111111111111111111111")
              ELSE last.args[2]
         /\ last.issued[1].args[3] =
              IF last.args[3] = Undefined THEN Num(1000) ELSE last.args[3]
         /\ last.issued[1].args[4] =
              IF last.args[4] = Undefined THEN Arr(<<>>) ELSE last.args[4]
    /\ (~Blank(last.args[1]) /\ last.args[3] = Undefined)
         => Len(last.issued) = 1

C17_Witness ==
  /\ Calls("registerNativeOperator")
  /\ last.args = <<Str("Benoit"), Undefined, Undefined, Undefined>>
  /\ last.ok
  /\ last.issued[1].args =
       <<Str("Benoit"), Str("0x1111111111111111111111111111111111111111"),
         Num(1000), Arr(<<>>)>>

(***************************************************************************)
(* The network table.                                                      *)
(***************************************************************************)
NetworkNames ==
  (1 :> "Ethereum") @@ (17000 :> "Holesky") @@ (11155111 :> "Ethereum Sepolia")

\* C19: getNetworkConfig(chainId) returns the entry of the table for a
\* supported chain and undefined, without throwing, for any other chain
\* id.
C19_LookupTotal ==
  Calls("networks.getNetworkConfig") =>
    /\ last.ok
    /\ IF InTable(last.args[1])
       THEN /\ last.value = Obj(NETWORKS[last.args[1].v])
            /\ last.value.v.name = NetworkNames[last.args[1].v]
       ELSE last.value = Undefined

C19_Witness ==
  /\ Calls("networks.getNetworkConfig")
  /\ last.args = <<Num(560048)>>
  /\ last.ok
  /\ last.value = Undefined

RequiredAddresses ==
  {"byzOperatorRegistry", "operatorRegistry", "operatorNetworkOptInService",
   "operatorVaultOptInService"}

\* an error whose message ends in "not configured for chain <id>"
IsNotConfigured(e) ==
  LET suffix == " not configured for chain ${chainId}"
      n == Len(e.msg)
  IN /\ n >= Len(suffix)
     /\ SubSeq(e.msg, n - Len(suffix) + 1, n) = suffix

\* C20: for every chain of the table the four addresses the client needs
\* are present and not zero, so constructing the client with a signer on a
\* supported chain succeeds and builds its four contracts, and no
\* construction fails with a "not configured" error; the zero addresses of
\* other fields do not matter.
C20_RequiredAddressesConfigured ==
  /\ \A id \in {1, 17000, 11155111} : \A f \in RequiredAddresses :
       /\ f \in DOMAIN NETWORKS[id]
       /\ NETWORKS[id][f] \notin {"", ZeroAddress}
  /\ Calls("constructor") =>
       /\ (InTable(last.args[1]) /\ Truthy(last.args[3])) =>
            /\ last.ok
            /\ Len(last.created) = 4
       /\ ~IsNotConfigured(last.error)

C20_Witness ==
  /\ Calls("constructor")
  /\ last.args[1] = Num(1)
  /\ last.ok
  /\ Len(last.created) = 4
  /\ NETWORKS[1].networkMetadataService = ZeroAddress


(***************************************************************************)
(* No state between the calls.                                             *)
(***************************************************************************)
\* the field of the network table holding the contract a method reaches
TargetField ==
  [op \in DOMAIN MethodMapping |->
     CASE op \in {"registerOperator", "isOperator", "getTotalOperators",
                  "getOperatorAtIndex"} -> "operatorRegistry"
       [] op \in {"optInNetwork", "optOutNetwork", "isOptedInNetwork"}
            -> "operatorNetworkOptInService"
       [] op \in {"optInVault", "optOutVault", "isOptedInVault"}
            -> "operatorVaultOptInService"
       [] OTHER -> "byzOperatorRegistry"]

\* the interaction a call is to issue, from its arguments and the
\* client's chainId and signer alone
ExpectedInteraction(op, args, chainId, signer) ==
  [helper |-> IF op \in WriteMethods THEN "send" ELSE "call",
   to |-> Str(NETWORKS[chainId.v][TargetField[op]]),
   runner |-> signer,
   method |-> MethodMapping[op],
   args |-> IF op = "registerNativeOperator"
            THEN <<args[1],
                   IF args[2] \in {Undefined, Str("")}
                   THEN Str(signer.v.address) ELSE args[2],
                   IF args[3] = Undefined THEN Num(1000) ELSE args[3],
                   IF args[4] = Undefined THEN Arr(<<>>) ELSE args[4]>>
            ELSE args]

\* C18: whatever calls were made before and whatever calls are in flight,
\* a call whose arguments pass the validation issues the one interaction
\* its arguments and the client's chainId and signer determine, and fails
\* only if the chain answers with an error; a call whose arguments do not
\* pass is rejected and issues nothing.  No call waits for another one:
\* optInNetwork and optInVault need no earlier registerOperator.
C18_OutcomeFromArgumentsAlone ==
  /\ \A s \in DOMAIN inflight :
       inflight[s] # Idle =>
         LET c == inflight[s] IN
         IF c.pc = "chain"
         THEN /\ ValidationPasses(c.op, c.args)
              /\ c.issued = <<ExpectedInteraction(c.op, c.args,
                                client.v.chainId, client.v.signer)>>
         ELSE c.issued = <<>>
  /\ last.op \in DOMAIN MethodMapping =>
       IF ValidationPasses(last.op, last.args)
       THEN /\ last.issued = <<ExpectedInteraction(last.op, last.args,
                                 client.v.chainId, client.v.signer)>>
            /\ last.ok <=> last.answer = "ok"
       ELSE /\ last.issued = <<>>
            /\ ~last.ok
            /\ last.answer = "none"

\* optInVault settled while optInNetwork, begun before it, is still in
\* flight, nothing else having been submitted
C18_Witness ==
  /\ Calls("optInVault")
  /\ last.ok
  /\ inflight[1] # Idle
  /\ inflight[1].op = "optInNetwork"
  /\ inflight[1].pc = "chain"
  /\ txCount = 2


(***************************************************************************)
(* Targets of the interactions.                                            *)
(***************************************************************************)
\* the sub-client of the facade that the contract of a table field backs
SubClientOf ==
  ("operatorRegistry" :> "symOperatorRegistry")
  @@ ("operatorNetworkOptInService" :> "symNetworkOptInService")
  @@ ("operatorVaultOptInService" :> "symVaultOptInService")
  @@ ("byzOperatorRegistry" :> "nativeOperatorRegistry")

\* C21: every interaction a client issues goes to the address the table
\* gives, for the client's own chainId, to the contract the method belongs
\* to (registry methods to operatorRegistry, network opt-in methods to
\* operatorNetworkOptInService, vault opt-in methods to
\* operatorVaultOptInService, Native methods to byzOperatorRegistry); each
\* sub-client of a client is bound to that address and carries the
\* client's chainId; no facade call changes the client.
C21_InteractionsTargetOwnChain ==
  /\ [](last.op \in DOMAIN MethodMapping =>
          \A i \in DOMAIN last.issued :
            last.issued[i].to =
              Str(NETWORKS[client.v.chainId.v][TargetField[last.op]]))
  /\ [](client # NoClient =>
          \A f \in DOMAIN SubClientOf :
            LET sub == client.v[SubClientOf[f]] IN
            /\ sub.v.chainId = client.v.chainId
            /\ sub.v.contract.address = Str(NETWORKS[client.v.chainId.v][f]))
  /\ [][last'.op \in PublicMethods => client' = client]_vars

C21_Witness ==
  /\ Calls("optInNetwork")
  /\ last.ok
  /\ client.v.chainId = Num(1)
  /\ last.issued[1].to = Str("0x7133415b33B438843D581013f98A08704316633c")


(***************************************************************************)
(* Addresses that are not configured.                                      *)
(***************************************************************************)
\* the table field each sub-client constructor reads, and the name its
\* error carries
FieldRead ==
  ("new OperatorRegistry" :> "operatorRegistry")
  @@ ("new OperatorNetworkOptInService" :> "operatorNetworkOptInService")
  @@ ("new OperatorVaultOptInService" :> "operatorVaultOptInService")
  @@ ("new NativeOperatorRegistry" :> "byzOperatorRegistry")

OwnError ==
  ("operatorRegistry" :>
     "Symbiotic Operator Registry not configured for chain ${chainId}")
  @@ ("operatorNetworkOptInService" :>
     "Network Opt-In Service not configured for chain ${chainId}")
  @@ ("operatorVaultOptInService" :>
     "Vault Opt-In Service not configured for chain ${chainId}")
  @@ ("byzOperatorRegistry" :>
     "Native Operator Registry not configured for chain ${chainId}")

\* the address of field f for the chain is missing, empty or zero
Unconfigured(chainId, f) ==
  \/ f \notin DOMAIN networks[chainId.v]
  \/ networks[chainId.v][f] \in {"", "0x0000000000000000000000000000000000000000"}

ChainsOptions == {Num(1), Num(17000), Num(560048)}

SupportedSet == {Num(1), Num(17000), Num(11155111)}

\* C23: isChainSupported(c) is true exactly when c is one of
\* getSupportedChainIds(), exactly when getNetworkConfig(c) is defined; the
\* supported chains are 1, 17000 and 11155111; the constructor accepts
\* 11155111 with a signer, though the ChainsOptions type does not list it.
C23_SupportedChainsAgree ==
  /\ Calls("networks.isChainSupported") =>
       LET c == last.args[1]
           ids == Ascending(getSupportedChainIds)
       IN /\ last.value = Bool(c \in SupportedSet)
          /\ last.value.v <=> (\E i \in DOMAIN ids : ids[i] = c)
          /\ last.value.v <=> (getNetworkConfig(c) # Undefined)
  /\ Calls("networks.getSupportedChainIds") =>
       {last.value.v[i] : i \in DOMAIN last.value.v} = SupportedSet
  /\ (Calls("constructor") /\ last.args[1] = Num(11155111)
        /\ Truthy(last.args[3])) => last.ok
  /\ Num(11155111) \notin ChainsOptions

C23_Witness ==
  /\ Calls("networks.isChainSupported")
  /\ last.args = <<Num(11155111)>>
  /\ last.value = Bool(TRUE)
  /\ client # NoClient
  /\ client.v.chainId = Num(11155111)

\* C24: the constructor tests the chain before the signer: with an
\* unsupported chainId the error is the unsupported-chain error, with or
\* without a signer; the missing-signer error is raised exactly for a
\* supported chain without a signer.
C24_ChainCheckedBeforeSigner ==
  Calls("constructor") =>
    /\ ~InTable(last.args[1]) =>
         /\ last.error.msg = "Chain ID ${chainId} is not supported"
         /\ last.error # SignerRequired
    /\ last.error.msg = "Signer is required for operator client"
         <=> (InTable(last.args[1]) /\ ~Truthy(last.args[3]))

C24_Witness ==
  /\ Calls("constructor")
  /\ last.args[1] = Num(560048)
  /\ last.args[3] = Undefined
  /\ ~last.ok
  /\ last.error = ChainNotSupported(Num(560048))

\* C25 (as stated): every fee registerNativeOperator or
\* updateNativeOperatorFee forwards to the contract is a number f with
\* 0 <= f <= 1000, whatever the input, NaN and undefined included.
C25_ForwardedFeeInRange ==
  /\ Calls("registerNativeOperator") =>
       \A i \in DOMAIN last.issued : FeeWithin(last.issued[i].args[3])
  /\ Calls("updateNativeOperatorFee") =>
       \A i \in DOMAIN last.issued : FeeWithin(last.issued[i].args[2])

====
